---- MODULE Spec2Model ----
(***************************************************************************)
(* goredis: a key-value server over RESP on TCP.                           *)
(*                                                                         *)
(* One goroutine per accepted connection (Server.handleConn, running       *)
(* Peer.readLoop) and one goroutine running Server.Loop, which owns the    *)
(* peer map and the KV store.  The goroutines meet on the unbuffered       *)
(* channels addPeerCh and msgCh; an unbuffered send and its receive are    *)
(* one step of the model.                                                  *)
(***************************************************************************)
EXTENDS Integers, Sequences, FiniteSets, TLC

(* ------------------------------- bounds -------------------------------- *)

\* Number of connections the acceptor may accept.
NumPeers == 2

\* Number of frames the workers decode, over all connections.
MaxFrames == 2

\* Number of unread replies a connection's socket takes before conn.Write blocks.
SockBuf == 1

Peers == 1..NumPeers

(* ----------------------------- wire values ----------------------------- *)

CommandSET == "SET"

CommandGET == "GET"

None == "<none>"

\* A RESP array of bulk strings, as resp.Reader.ReadValue returns it.
ArrayValue(a) == [type |-> "Array", arr |-> a]

\* A RESP value that is not an array (a simple string).
SimpleValue == [type |-> "SimpleString", arr |-> <<>>]

\* Bytes that are no RESP value: ReadValue returns an error that is not io.EOF.
Malformed == [type |-> "Malformed", arr |-> <<>>]

\* No value decoded yet.
NoValue == [type |-> None, arr |-> <<>>]

\* The requests the clients send: the well-formed GET and SET, wrong arity,
\* an unknown verb, arguments whose bytes are a verb, a non-array value and
\* bytes that do not decode.
Frames ==
    { ArrayValue(<<"SET", "k1", "v1">>),
      ArrayValue(<<"SET", "k1", "v2">>),
      ArrayValue(<<"SET", "k2", "v2">>),
      ArrayValue(<<"GET", "k1">>),
      ArrayValue(<<"SET", "k1">>),
      ArrayValue(<<"DEL", "k1">>),
      ArrayValue(<<"GET", "GET">>),
      ArrayValue(<<"SET", "GET", "v1">>),
      SimpleValue,
      Malformed }

(* ------------------------------ commands ------------------------------- *)

SetCommand(k, v) == [type |-> "SET", key |-> k, val |-> v]

GetCommand(k) == [type |-> "GET", key |-> k, val |-> None]

NoCommand == [type |-> None, key |-> None, val |-> None]

(* ------------------------------ KV store ------------------------------- *)

\* NewKV: the empty map.
NewKV == [k \in {} |-> None]

\* KV.Set(key, val): the map with key bound to val.
KVSet(d, k, v) == [x \in (DOMAIN d) \cup {k} |-> IF x = k THEN v ELSE d[x]]

\* KV.Get(key): the value bound to key and whether there is one.
KVGet(d, k) ==
    IF k \in DOMAIN d THEN [val |-> d[k], ok |-> TRUE]
                      ELSE [val |-> None, ok |-> FALSE]

(* -------------------------------- state -------------------------------- *)

VARIABLES
    alive,     \* FALSE once log.Fatal has ended the process
    running,   \* Server.Loop: "running", or "stopped" after quitCh
    sending,   \* the Send that Server.Loop is blocked in, or NoSend
    peers,     \* Server.peers
    kv,        \* Server.kv
    pc,        \* per connection: where its handleConn goroutine is
    cur,       \* per connection: the array readLoop is ranging over
    curN,      \* per connection: the number of the frame cur came from
    idx,       \* per connection: the position of the range loop in cur
    retErr,    \* per connection: what readLoop returned
    closed,    \* per connection: the client has closed its end
    outbuf,    \* per connection: replies written to the socket, not yet read
    nread,     \* per connection: frames rd.ReadValue has decoded
    frame,     \* history: per connection, the value rd.ReadValue decoded last
    lastSet,   \* history: per key, the value of the Set applied last
    applied,   \* history: per connection, the envelopes Server.Loop received
    last       \* history: the event Server.Loop handled last

vars == << alive, running, sending, peers, kv, pc, cur, curN, idx, retErr,
           closed, outbuf, nread, frame, lastSet, applied, last >>

connVars == << closed, nread, frame >>

workerVars == << pc, cur, curN, idx, retErr >>

NoSend == [peer |-> 0, val |-> None]

NoEvent ==
    [op |-> None, peer |-> 0, cmd |-> NoCommand, sent |-> None, err |-> "nil"]

Event(op, p, c, s, e) ==
    [op |-> op, peer |-> p, cmd |-> c, sent |-> s, err |-> e]

RECURSIVE SumOver(_, _)
SumOver(f, S) ==
    IF S = {} THEN 0
    ELSE LET x == CHOOSE y \in S : TRUE IN f[x] + SumOver(f, S \ {x})

Init ==
    /\ alive = TRUE
    /\ running = "running"
    /\ sending = NoSend
    /\ peers = {}
    /\ kv = NewKV
    /\ pc = [p \in Peers |-> "idle"]
    /\ cur = [p \in Peers |-> <<>>]
    /\ curN = [p \in Peers |-> 0]
    /\ idx = [p \in Peers |-> 0]
    /\ retErr = [p \in Peers |-> None]
    /\ closed = [p \in Peers |-> FALSE]
    /\ outbuf = [p \in Peers |-> <<>>]
    /\ nread = [p \in Peers |-> 0]
    /\ frame = [p \in Peers |-> NoValue]
    /\ lastSet = NewKV
    /\ applied = [p \in Peers |-> <<>>]
    /\ last = NoEvent

(* ------------------------------- clients ------------------------------- *)

\* Client.Close: the client closes its end of the connection.
ClientClose(p) ==
    /\ alive
    /\ pc[p] # "idle"
    /\ ~closed[p]
    /\ closed' = [closed EXCEPT ![p] = TRUE]
    /\ UNCHANGED << alive, running, sending, peers, kv, workerVars, outbuf,
                    nread, frame, lastSet, applied, last >>

\* Client.Get's conn.Read: the client takes the oldest unread reply.
ClientRead(p) ==
    /\ alive
    /\ ~closed[p]
    /\ outbuf[p] # <<>>
    /\ outbuf' = [outbuf EXCEPT ![p] = Tail(@)]
    /\ UNCHANGED << alive, running, sending, peers, kv, workerVars, connVars,
                    lastSet, applied, last >>

(* ------------------------- connection worker --------------------------- *)

\* The range loop of readLoop over the array a from position i, up to the
\* first element that makes it send on msgCh or return.
RECURSIVE Scan(_, _)
Scan(a, i) ==
    IF i > Len(a) THEN [kind |-> "end", idx |-> 0, cmd |-> NoCommand]
    ELSE IF a[i] = CommandGET
        THEN IF Len(a) # 2
             THEN [kind |-> "error", idx |-> i, cmd |-> NoCommand]
             ELSE [kind |-> "send", idx |-> i, cmd |-> GetCommand(a[2])]
    ELSE IF a[i] = CommandSET
        THEN IF Len(a) # 3
             THEN [kind |-> "error", idx |-> i, cmd |-> NoCommand]
             ELSE [kind |-> "send", idx |-> i, cmd |-> SetCommand(a[2], a[3])]
    ELSE Scan(a, i + 1)

\* Range with the range loop starting over at the first element of the array
\* after every send.
Range_Rewind(p, a, n, i) ==
    LET r == Scan(a, 1) IN
    /\ pc' = [pc EXCEPT ![p] = CASE r.kind = "send"  -> "send"
                                 [] r.kind = "error" -> "returned"
                                 [] OTHER            -> "read"]
    /\ cur' = [cur EXCEPT ![p] = IF r.kind = "send" THEN a ELSE <<>>]
    /\ curN' = [curN EXCEPT ![p] = IF r.kind = "send" THEN n ELSE 0]
    /\ idx' = [idx EXCEPT ![p] = IF r.kind = "send" THEN r.idx ELSE 0]
    /\ retErr' = [retErr EXCEPT ![p] =
                     IF r.kind = "error" THEN "Invalid command" ELSE @]

\* readLoop of connection p going on in array a (frame number n) at position i.
Range(p, a, n, i) ==
    LET r == Scan(a, i) IN
    /\ pc' = [pc EXCEPT ![p] = CASE r.kind = "send"  -> "send"
                                 [] r.kind = "error" -> "returned"
                                 [] OTHER            -> "read"]
    /\ cur' = [cur EXCEPT ![p] = IF r.kind = "send" THEN a ELSE <<>>]
    /\ curN' = [curN EXCEPT ![p] = IF r.kind = "send" THEN n ELSE 0]
    /\ idx' = [idx EXCEPT ![p] = IF r.kind = "send" THEN r.idx ELSE 0]
    /\ retErr' = [retErr EXCEPT ![p] =
                     IF r.kind = "error" THEN "Invalid command" ELSE @]

\* The envelope connection p is blocked sending on msgCh.
Pending(p) ==
    IF pc[p] = "send" THEN Scan(cur[p], idx[p]).cmd ELSE NoCommand

\* handleConn calling readLoop without sending its peer on addPeerCh first.
Accept_SkipsAdd(p) ==
    /\ alive
    /\ pc[p] = "idle"
    /\ \A q \in Peers : q < p => pc[q] # "idle"
    /\ pc' = [pc EXCEPT ![p] = "read"]
    /\ UNCHANGED << alive, running, sending, peers, kv, cur, curN, idx, retErr,
                    connVars, outbuf, lastSet, applied, last >>

\* handleConn putting its peer into Server.peers itself, next to sending it
\* on addPeerCh.
Accept_RegistersPeer(p) ==
    /\ alive
    /\ pc[p] = "idle"
    /\ \A q \in Peers : q < p => pc[q] # "idle"
    /\ pc' = [pc EXCEPT ![p] = "add"]
    /\ peers' = peers \cup {p}
    /\ UNCHANGED << alive, running, sending, kv, cur, curN, idx, retErr,
                    connVars, outbuf, lastSet, applied, last >>

\* acceptLoop: Accept returns a connection and handleConn is started for it;
\* the goroutine blocks sending its peer on addPeerCh.  Connections are
\* numbered in the order acceptLoop accepts them.
Accept(p) ==
    /\ alive
    /\ pc[p] = "idle"
    /\ \A q \in Peers : q < p => pc[q] # "idle"
    /\ pc' = [pc EXCEPT ![p] = "add"]
    /\ UNCHANGED << alive, running, sending, peers, kv, cur, curN, idx, retErr,
                    connVars, outbuf, lastSet, applied, last >>

\* readLoop: one rd.ReadValue and what follows it up to the next blocking
\* point (the next ReadValue, a send on msgCh) or the return.  The value
\* decoded is the next one of the client's stream, one of F, while fewer than
\* max values have been decoded; io.EOF comes once the client has closed and
\* the stream is used up.
ReadValueFrom(p, F, max) ==
    /\ alive
    /\ pc[p] = "read"
    /\ \/ \E f \in F :
             /\ SumOver(nread, Peers) < max
             /\ nread' = [nread EXCEPT ![p] = @ + 1]
             /\ frame' = [frame EXCEPT ![p] = f]
             /\ \/ /\ f.type = "Malformed"
                   /\ alive' = FALSE
                   /\ UNCHANGED workerVars
                \/ /\ f.type = "Array"
                   /\ Range(p, f.arr, nread[p] + 1, 1)
                   /\ UNCHANGED alive
                \/ /\ f.type \notin {"Malformed", "Array"}
                   /\ UNCHANGED << alive, workerVars >>
       \/ /\ closed[p]
          /\ pc' = [pc EXCEPT ![p] = "returned"]
          /\ retErr' = [retErr EXCEPT ![p] = "nil"]
          /\ UNCHANGED << alive, nread, frame, cur, curN, idx >>
    /\ UNCHANGED << running, sending, peers, kv, closed, outbuf, lastSet,
                    applied, last >>

\* readLoop on the requests of Frames.
ReadValue(p) == ReadValueFrom(p, Frames, MaxFrames)

(* ------------------------------ dispatcher ----------------------------- *)

\* Peer.Send: conn.Write of msg on connection p's socket.  The write is
\* taken by the socket when it has room; it may fail once the client has
\* closed; without room it blocks.
Send(p, msg, c) ==
    \/ /\ Len(outbuf[p]) < SockBuf
       /\ outbuf' = [outbuf EXCEPT ![p] = Append(@, msg)]
       /\ sending' = NoSend
       /\ last' = Event("msg", p, c, msg, "nil")
    \/ /\ closed[p]
       /\ outbuf' = outbuf
       /\ sending' = NoSend
       /\ last' = Event("msg", p, c, msg, "peer send error")
    \/ /\ Len(outbuf[p]) >= SockBuf
       /\ ~closed[p]
       /\ outbuf' = outbuf
       /\ sending' = [peer |-> p, val |-> msg]
       /\ last' = Event("msg", p, c, msg, "blocked")

\* handleMessage calling kv.Set(v.val, v.key).
handleMessage_SetSwapped(c, p) ==
    IF c.type = "SET"
    THEN /\ kv' = KVSet(kv, c.val, c.key)
         /\ last' = Event("msg", p, c, None, "nil")
         /\ UNCHANGED << outbuf, sending >>
    ELSE IF c.type = "GET"
    THEN LET r == KVGet(kv, c.key) IN
         IF ~r.ok
         THEN /\ last' = Event("msg", p, c, None, "key not found")
              /\ UNCHANGED << kv, outbuf, sending >>
         ELSE /\ Send(p, r.val, c)
              /\ UNCHANGED kv
    ELSE /\ last' = Event("msg", p, c, None, "nil")
         /\ UNCHANGED << kv, outbuf, sending >>

\* handleMessage without the check of ok after kv.Get.
handleMessage_IgnoreOk(c, p) ==
    IF c.type = "SET"
    THEN /\ kv' = KVSet(kv, c.key, c.val)
         /\ last' = Event("msg", p, c, None, "nil")
         /\ UNCHANGED << outbuf, sending >>
    ELSE IF c.type = "GET"
    THEN /\ Send(p, KVGet(kv, c.key).val, c)
         /\ UNCHANGED kv
    ELSE /\ last' = Event("msg", p, c, None, "nil")
         /\ UNCHANGED << kv, outbuf, sending >>

\* handleMessage with a Set that starts a new map.
handleMessage_SetReplacesMap(c, p) ==
    IF c.type = "SET"
    THEN /\ kv' = KVSet(NewKV, c.key, c.val)
         /\ last' = Event("msg", p, c, None, "nil")
         /\ UNCHANGED << outbuf, sending >>
    ELSE IF c.type = "GET"
    THEN LET r == KVGet(kv, c.key) IN
         IF ~r.ok
         THEN /\ last' = Event("msg", p, c, None, "key not found")
              /\ UNCHANGED << kv, outbuf, sending >>
         ELSE /\ Send(p, r.val, c)
              /\ UNCHANGED kv
    ELSE /\ last' = Event("msg", p, c, None, "nil")
         /\ UNCHANGED << kv, outbuf, sending >>

\* handleMessage with a Set that keeps the value of a key already present.
handleMessage_FirstWins(c, p) ==
    IF c.type = "SET"
    THEN /\ kv' = IF c.key \in DOMAIN kv THEN kv ELSE KVSet(kv, c.key, c.val)
         /\ last' = Event("msg", p, c, None, "nil")
         /\ UNCHANGED << outbuf, sending >>
    ELSE IF c.type = "GET"
    THEN LET r == KVGet(kv, c.key) IN
         IF ~r.ok
         THEN /\ last' = Event("msg", p, c, None, "key not found")
              /\ UNCHANGED << kv, outbuf, sending >>
         ELSE /\ Send(p, r.val, c)
              /\ UNCHANGED kv
    ELSE /\ last' = Event("msg", p, c, None, "nil")
         /\ UNCHANGED << kv, outbuf, sending >>

\* handleMessage sending a Get's value to some peer of the map.
handleMessage_SendToAny(c, p) ==
    IF c.type = "SET"
    THEN /\ kv' = KVSet(kv, c.key, c.val)
         /\ last' = Event("msg", p, c, None, "nil")
         /\ UNCHANGED << outbuf, sending >>
    ELSE IF c.type = "GET"
    THEN LET r == KVGet(kv, c.key) IN
         IF ~r.ok
         THEN /\ last' = Event("msg", p, c, None, "key not found")
              /\ UNCHANGED << kv, outbuf, sending >>
         ELSE /\ \E q \in peers : Send(q, r.val, c)
              /\ UNCHANGED kv
    ELSE /\ last' = Event("msg", p, c, None, "nil")
         /\ UNCHANGED << kv, outbuf, sending >>

\* handleMessage acknowledging a Set to the connection that sent it.
handleMessage_SetReplies(c, p) ==
    IF c.type = "SET"
    THEN /\ kv' = KVSet(kv, c.key, c.val)
         /\ Send(p, "OK", c)
    ELSE IF c.type = "GET"
    THEN LET r == KVGet(kv, c.key) IN
         IF ~r.ok
         THEN /\ last' = Event("msg", p, c, None, "key not found")
              /\ UNCHANGED << kv, outbuf, sending >>
         ELSE /\ Send(p, r.val, c)
              /\ UNCHANGED kv
    ELSE /\ last' = Event("msg", p, c, None, "nil")
         /\ UNCHANGED << kv, outbuf, sending >>

\* Server.handleMessage for the envelope (c, p).
handleMessage(c, p) ==
    IF c.type = "SET"
    THEN /\ kv' = KVSet(kv, c.key, c.val)
         /\ last' = Event("msg", p, c, None, "nil")
         /\ UNCHANGED << outbuf, sending >>
    ELSE IF c.type = "GET"
    THEN LET r == KVGet(kv, c.key) IN
         IF ~r.ok
         THEN /\ last' = Event("msg", p, c, None, "key not found")
              /\ UNCHANGED << kv, outbuf, sending >>
         ELSE /\ Send(p, r.val, c)
              /\ UNCHANGED kv
    ELSE /\ last' = Event("msg", p, c, None, "nil")
         /\ UNCHANGED << kv, outbuf, sending >>

\* Server.Loop can take an event: it is in its select.
InSelect == alive /\ running = "running" /\ sending = NoSend

\* Server.Loop polling the connections in order: it takes connection p's
\* envelope only when no connection before p waits with one.
LoopMsg_InOrder(p) ==
    /\ InSelect
    /\ pc[p] = "send"
    /\ \A q \in Peers : q < p => pc[q] # "send"
    /\ handleMessage(Pending(p), p)
    /\ Range(p, cur[p], curN[p], idx[p] + 1)
    /\ lastSet' = IF Pending(p).type = "SET"
                  THEN KVSet(lastSet, Pending(p).key, Pending(p).val)
                  ELSE lastSet
    /\ applied' = [applied EXCEPT ![p] =
                      Append(@, [n |-> curN[p], i |-> idx[p], cmd |-> Pending(p)])]
    /\ UNCHANGED << alive, running, peers, connVars >>

\* Server.Loop, case msg := <-s.msgCh, meeting connection p's send.
LoopMsg(p) ==
    /\ InSelect
    /\ pc[p] = "send"
    /\ handleMessage(Pending(p), p)
    /\ Range(p, cur[p], curN[p], idx[p] + 1)
    /\ lastSet' = IF Pending(p).type = "SET"
                  THEN KVSet(lastSet, Pending(p).key, Pending(p).val)
                  ELSE lastSet
    /\ applied' = [applied EXCEPT ![p] =
                      Append(@, [n |-> curN[p], i |-> idx[p], cmd |-> Pending(p)])]
    /\ UNCHANGED << alive, running, peers, connVars >>

\* Server.Loop still receiving on addPeerCh after it has taken quitCh.
LoopAddPeer_AfterQuit(p) ==
    /\ alive
    /\ sending = NoSend
    /\ pc[p] = "add"
    /\ peers' = peers \cup {p}
    /\ pc' = [pc EXCEPT ![p] = "read"]
    /\ last' = Event("add", p, NoCommand, None, "nil")
    /\ UNCHANGED << alive, running, sending, kv, cur, curN, idx, retErr,
                    connVars, outbuf, lastSet, applied >>

\* Server.Loop, case peer := <-s.addPeerCh, meeting handleConn's send.
LoopAddPeer(p) ==
    /\ InSelect
    /\ pc[p] = "add"
    /\ peers' = peers \cup {p}
    /\ pc' = [pc EXCEPT ![p] = "read"]
    /\ last' = Event("add", p, NoCommand, None, "nil")
    /\ UNCHANGED << alive, running, sending, kv, cur, curN, idx, retErr,
                    connVars, outbuf, lastSet, applied >>

\* Server.Loop emptying the registry on a remove-peer.
LoopDelPeer_Clear(p) ==
    /\ InSelect
    /\ peers' = {}
    /\ last' = Event("del", p, NoCommand, None, "nil")
    /\ UNCHANGED << alive, running, sending, kv, workerVars, connVars, outbuf,
                    lastSet, applied >>

\* Server.Loop, case peer := <-s.delPeerCh.  No goroutine of the source
\* sends on delPeerCh, so no step of Next is this one.
LoopDelPeer(p) ==
    /\ InSelect
    /\ peers' = peers \ {p}
    /\ last' = Event("del", p, NoCommand, None, "nil")
    /\ UNCHANGED << alive, running, sending, kv, workerVars, connVars, outbuf,
                    lastSet, applied >>

\* Server.Loop, case <-s.quitCh: the loop returns.
LoopQuit ==
    /\ InSelect
    /\ running' = "stopped"
    /\ last' = Event("quit", 0, NoCommand, None, "nil")
    /\ UNCHANGED << alive, sending, peers, kv, workerVars, connVars, outbuf,
                    lastSet, applied >>

\* The conn.Write Server.Loop is blocked in returns: the client has read a
\* reply and the socket takes the bytes, or the client has closed and the
\* write fails.
SendReturn ==
    /\ alive
    /\ sending # NoSend
    /\ \/ /\ Len(outbuf[sending.peer]) < SockBuf
          /\ outbuf' = [outbuf EXCEPT ![sending.peer] = Append(@, sending.val)]
          /\ last' = [last EXCEPT !.err = "nil"]
       \/ /\ closed[sending.peer]
          /\ outbuf' = outbuf
          /\ last' = [last EXCEPT !.err = "peer send error"]
    /\ sending' = NoSend
    /\ UNCHANGED << alive, running, peers, kv, workerVars, connVars, lastSet,
                    applied >>

Next ==
    \/ \E p \in Peers : Accept(p)
    \/ \E p \in Peers : ClientClose(p)
    \/ \E p \in Peers : ClientRead(p)
    \/ \E p \in Peers : ReadValue(p)
    \/ \E p \in Peers : LoopMsg(p)
    \/ \E p \in Peers : LoopAddPeer(p)
    \/ SendReturn
    \/ LoopQuit

Spec == Init /\ [][Next]_vars

\* The requests of the connections while remove-peer events arrive.
DelFrames ==
    { ArrayValue(<< "SET", "k1", "v1" >>),
      ArrayValue(<< "GET", "k1" >>) }

\* The number of requests decoded, on all connections, while remove-peer
\* events arrive.
MaxDelFrames == 1

\* The server with remove-peer events: delPeerCh delivers a peer, any of
\* Peers, registered or not, at any time Server.Loop is in its select.
NextDel ==
    \/ \E p \in Peers : Accept(p)
    \/ \E p \in Peers : ClientClose(p)
    \/ \E p \in Peers : ReadValueFrom(p, DelFrames, MaxDelFrames)
    \/ \E p \in Peers : LoopMsg(p)
    \/ \E p \in Peers : LoopAddPeer(p)
    \/ \E p \in Peers : LoopDelPeer(p)
    \/ LoopQuit

SpecDel == Init /\ [][NextDel]_vars

\* The elements of the array frames a client can write: the two verbs, a
\* verb the server does not know, and a key.
Tokens == { "GET", "SET", "DEL", "k1" }

\* The longest array frame decoded.
MaxArity == 3

\* All sequences over S of length n.
SeqsOfLen(S, n) == [1..n -> S]

\* Every array frame of up to MaxArity elements of Tokens.
DecodeFrames == { ArrayValue(a) : a \in UNION { SeqsOfLen(Tokens, n) : n \in 0..MaxArity } }

\* The number of frames decoded on the connection.
MaxDecodes == 1

\* One connection on which readLoop decodes any of DecodeFrames and
\* Server.Loop takes the envelopes it sends.
NextDecode ==
    \/ Accept(1)
    \/ LoopAddPeer(1)
    \/ ReadValueFrom(1, DecodeFrames, MaxDecodes)
    \/ LoopMsg(1)

SpecDecode == Init /\ [][NextDecode]_vars

\* The server while no shutdown signal is sent: quitCh delivers nothing.
NextLive ==
    \/ \E p \in Peers : Accept(p)
    \/ \E p \in Peers : ClientClose(p)
    \/ \E p \in Peers : ClientRead(p)
    \/ \E p \in Peers : ReadValue(p)
    \/ \E p \in Peers : LoopMsg(p)
    \/ \E p \in Peers : LoopAddPeer(p)
    \/ SendReturn

\* Server.Loop's select takes a case that is ready again and again (the
\* choice among ready cases is random), and socket writes complete: a client
\* reads the replies in its socket, and a conn.Write that can return does.
Fairness ==
    /\ \A p \in Peers : SF_vars(LoopMsg(p))
    /\ \A p \in Peers : SF_vars(LoopAddPeer(p))
    /\ \A p \in Peers : WF_vars(ClientRead(p))
    /\ WF_vars(SendReturn)

SpecLive == Init /\ [][NextLive]_vars /\ Fairness

(* ------------------------------ properties ----------------------------- *)

\* Server.Loop receives an envelope of connection p in this step.
Applied(p) == Len(applied'[p]) = Len(applied[p]) + 1

\* No goroutine is blocked offering Server.Loop an event, and Server.Loop is
\* not inside a Send: the server does nothing more until a client acts.
NothingOffered ==
    /\ sending = NoSend
    /\ \A q \in Peers : pc[q] \notin {"add", "send"}

\* The Set commands Server.Loop has received.
AllSets ==
    UNION { { applied[p][j].cmd :
                j \in { k \in 1..Len(applied[p]) :
                          applied[p][k].cmd.type = "SET" } } : p \in Peers }

\* Envelope a comes before envelope b in the stream of one connection.
TagLess(a, b) == a.n < b.n \/ (a.n = b.n /\ a.i < b.i)

\* C1: once Set(k, v) is applied, a Get(k) applied later with no Set on k in
\* between, from any connection p, has Send called on p with exactly v: the
\* socket of p takes v, or the write of v to p blocks, or it fails because
\* the client has closed.
C1_SetThenGetReturnsValue ==
    [][\A p \in Peers :
         (Applied(p) /\ Pending(p).type = "GET"
                     /\ Pending(p).key \in DOMAIN lastSet)
         => LET v == lastSet[Pending(p).key] IN
            /\ last'.peer = p
            /\ last'.sent = v
            /\ \/ /\ outbuf'[p] = Append(outbuf[p], v)
                  /\ sending' = NoSend
                  /\ last'.err = "nil"
               \/ /\ outbuf'[p] = outbuf[p]
                  /\ sending' = [peer |-> p, val |-> v]
               \/ /\ closed[p]
                  /\ outbuf'[p] = outbuf[p]
                  /\ sending' = NoSend
                  /\ last'.err = "peer send error"]_vars

\* C1 witness: connection 1 set k1 to v1 and connection 2 got v1 for k1.
C1_Witness ==
    /\ Len(applied[1]) = 1
    /\ applied[1][1].cmd = SetCommand("k1", "v1")
    /\ last = Event("msg", 2, GetCommand("k1"), "v1", "nil")
    /\ outbuf[2] = <<"v1">>

\* C2: a Get of a key no applied Set has written sends nothing to any
\* connection, is answered "key not found" to Server.Loop and leaves the
\* store as it is.
C2_GetUnwrittenKeyNotFound ==
    [][\A p \in Peers :
         (Applied(p) /\ Pending(p).type = "GET"
                     /\ Pending(p).key \notin DOMAIN lastSet)
         => /\ outbuf' = outbuf
            /\ sending' = NoSend
            /\ kv' = kv
            /\ last'.sent = None
            /\ last'.err = "key not found"]_vars

\* C2 witness: k1 was got while only k2 was in the store, and nothing was sent.
C2_Witness ==
    /\ kv = KVSet(NewKV, "k2", "v2")
    /\ last = Event("msg", 1, GetCommand("k1"), None, "key not found")
    /\ \A p \in Peers : outbuf[p] = <<>>

\* C3: every applied Set whose key no other applied Set wrote with another
\* value is in the store: Sets of distinct keys from different connections
\* all persist, in whatever order they were applied.
C3_DistinctKeysAllPersist ==
    \A c \in AllSets :
        (\A d \in AllSets : d.key = c.key => d = c)
        => (c.key \in DOMAIN kv /\ kv[c.key] = c.val)

\* C3 witness: two connections set one key each and the store has both.
C3_Witness ==
    /\ Len(applied[1]) = 1
    /\ applied[1][1].cmd = SetCommand("k1", "v1")
    /\ Len(applied[2]) = 1
    /\ applied[2][1].cmd = SetCommand("k2", "v2")
    /\ kv = KVSet(KVSet(NewKV, "k1", "v1"), "k2", "v2")

\* C4: the store holds for every written key the value of the Set applied
\* last, which is a value some connection wrote for that key, and holds no
\* other key.
C4_SameKeyLastAppliedWins ==
    /\ DOMAIN kv = DOMAIN lastSet
    /\ \A k \in DOMAIN kv :
          /\ kv[k] = lastSet[k]
          /\ \E c \in AllSets : c.key = k /\ c.val = kv[k]

\* C4 witness: connections 1 and 2 set k1 to v1 and to v2; the Set of
\* connection 1 was applied last and the store has v1.
C4_Witness ==
    /\ Len(applied[1]) = 1
    /\ applied[1][1].cmd = SetCommand("k1", "v1")
    /\ Len(applied[2]) = 1
    /\ applied[2][1].cmd = SetCommand("k1", "v2")
    /\ last = Event("msg", 1, SetCommand("k1", "v1"), None, "nil")
    /\ kv = KVSet(NewKV, "k1", "v1")

\* C5: a frame of wrong arity does not end the read loop of its connection:
\* readLoop returns only at the end of the stream, with no error.
C5_MalformedFrameKeepsReading ==
    \A p \in Peers : pc[p] = "returned" => retErr[p] = "nil"

\* C6: a connection whose client has disconnected and whose worker has
\* returned at the end of the stream is out of the registry once the server
\* has nothing left to do.
C6_DisconnectedPeerRemoved ==
    \A p \in Peers :
        (closed[p] /\ pc[p] = "returned" /\ retErr[p] = "nil" /\ NothingOffered)
        => p \notin peers

\* C7: the envelopes Server.Loop receives from one connection come in the
\* order of the connection's stream: by frame, and within a frame by position.
C7_FifoPerConnection ==
    \A p \in Peers :
        \A j \in 1..(Len(applied[p]) - 1) :
            TagLess(applied[p][j], applied[p][j + 1])

\* C7 witness: two frames of connection 1 were applied, the first one first,
\* while connection 2 was being served too.
C7_Witness ==
    /\ Len(applied[1]) = 2
    /\ applied[1][1].n = 1
    /\ applied[1][2].n = 2
    /\ 2 \in peers

\* C8: no error ends the process.
C8_NoErrorEndsProcess == alive

\* C9: a Get of a present key from connection p has Send called once, on p,
\* with the stored value; no other connection's socket changes, and neither
\* do the store and the registry.
C9_GetRoutedToIssuer ==
    [][\A p \in Peers :
         (Applied(p) /\ Pending(p).type = "GET"
                     /\ Pending(p).key \in DOMAIN kv)
         => LET v == kv[Pending(p).key] IN
            /\ kv' = kv
            /\ peers' = peers
            /\ \A q \in Peers \ {p} : outbuf'[q] = outbuf[q]
            /\ last' = Event("msg", p, Pending(p), v, last'.err)
            /\ \/ /\ outbuf'[p] = Append(outbuf[p], v)
                  /\ sending' = NoSend
               \/ /\ outbuf'[p] = outbuf[p]
                  /\ sending' = [peer |-> p, val |-> v]
               \/ /\ closed[p]
                  /\ outbuf'[p] = outbuf[p]
                  /\ sending' = NoSend
                  /\ last'.err = "peer send error"]_vars

\* C9 witness: connection 2 got a present key while connection 1 was
\* registered; the value went to connection 2 and nothing to connection 1.
C9_Witness ==
    /\ peers = {1, 2}
    /\ last.op = "msg"
    /\ last.peer = 2
    /\ last.cmd.type = "GET"
    /\ last.sent # None
    /\ outbuf[2] = <<last.sent>>
    /\ outbuf[1] = <<>>

\* C10: every Get the dispatcher has handled was answered on its connection
\* by the time the server has nothing left to do.
C10_EveryGetAnswered ==
    (NothingOffered /\ last.op = "msg" /\ last.cmd.type = "GET")
    => last.sent # None

\* C11: Server.Loop is never blocked inside a Send: no write to a connection
\* keeps it from its select, where the events of the other connections wait.
C11_DispatcherNeverBlockedInSend == sending = NoSend

C13_RegistryIffWorkerActive ==
    \A p \in Peers :
        /\ p \in peers => pc[p] \in {"read", "send"}
        /\ pc[p] \in {"read", "send"} => p \in peers

C18_WorkerLifecycleOrder ==
    \A p \in Peers :
        /\ pc[p] \in {"idle", "add"} => nread[p] = 0 /\ applied[p] = << >>
        /\ applied[p] # << >> => nread[p] > 0
        /\ pc[p] = "returned" /\ retErr[p] = "nil" => closed[p] /\ p \notin peers

\* C19: in every step in which Server.Loop takes an envelope of connection
\* p, the peer p is in Server.peers, before the step and after it.
C19_IssuerRegisteredWhenApplied ==
    [][\A p \in Peers : Applied(p) => p \in peers /\ p \in peers']_vars

\* Server.Loop has just taken an envelope of a registered connection while
\* the other connection, accepted later, is not registered yet.
C19_Witness ==
    /\ last.op = "msg"
    /\ applied[last.peer] # << >>
    /\ last.peer \in peers
    /\ \E q \in Peers : q # last.peer /\ q \notin peers /\ pc[q] = "add"

\* Server.Loop processes a remove-peer of p in this step.
DelStep(p) == last'.op = "del" /\ last'.peer = p /\ last' # last

\* C20: a remove-peer of a peer that is not in Server.peers changes neither
\* the registry nor the Store nor the state of Server.Loop, which goes on
\* running; a remove-peer of a registered peer takes exactly that peer out
\* of the registry and changes nothing else.
C20_RemovePeerExact ==
    [][\A p \in Peers : DelStep(p) =>
          /\ p \notin peers => peers' = peers
          /\ p \in peers => peers' = peers \ {p}
          /\ kv' = kv
          /\ running' = running
          /\ alive' = alive
          /\ sending' = sending]_vars

\* Server.Loop has just processed the remove-peer of a connection that was
\* never accepted, with the other connection registered and a value stored.
C20_Witness ==
    /\ last.op = "del"
    /\ pc[last.peer] = "idle"
    /\ peers # {}
    /\ kv # NewKV
    /\ running = "running"

\* The envelopes of the frame connection p decoded last that Server.Loop
\* has taken, in order.
RECURSIVE EnvelopesFrom(_, _)
EnvelopesFrom(s, n) ==
    IF s = << >> THEN << >>
    ELSE IF Head(s).n = n THEN << Head(s).cmd >> \o EnvelopesFrom(Tail(s), n)
         ELSE EnvelopesFrom(Tail(s), n)

Envelopes(p) == EnvelopesFrom(applied[p], nread[p])

\* readLoop is through with the array frame connection p decoded last: it
\* is back in rd.ReadValue or has returned.
FrameDone(p) == frame[p].type = "Array" /\ pc[p] \in {"read", "returned"}

\* The frame is a request by its first element and its length.
WellFormed(a) ==
    /\ Len(a) > 0
    /\ \/ a[1] = CommandGET /\ Len(a) = 2
       \/ a[1] = CommandSET /\ Len(a) = 3

\* C15: what readLoop makes of an array frame is a function of the frame:
\* GET with one argument gives the one envelope Get{key = arg[0]}, SET with
\* two arguments the one envelope Set{key = arg[0], value = arg[1]}, GET or
\* SET of another length no envelope and the arity error, and a frame with
\* any other first element no envelope and no arity error.
C15_FrameToCommandMapping ==
    \A p \in Peers :
        FrameDone(p) =>
            LET a == frame[p].arr
                d == Envelopes(p)
            IN  IF Len(a) > 0 /\ a[1] = CommandGET
                THEN IF Len(a) = 2
                     THEN d = << GetCommand(a[2]) >> /\ retErr[p] # "Invalid command"
                     ELSE d = << >> /\ retErr[p] = "Invalid command"
                ELSE IF Len(a) > 0 /\ a[1] = CommandSET
                THEN IF Len(a) = 3
                     THEN d = << SetCommand(a[2], a[3]) >> /\ retErr[p] # "Invalid command"
                     ELSE d = << >> /\ retErr[p] = "Invalid command"
                ELSE d = << >> /\ retErr[p] # "Invalid command"

\* C16: only the first element of a frame is its verb: Server.Loop takes at
\* most one envelope of a frame, made at the first element, and exactly one
\* of a well-formed GET or SET frame, whose arguments, whatever they are,
\* cause no arity error.
C16_VerbIsFirstElementOnly ==
    \A p \in Peers :
        /\ \A k \in 1..Len(applied[p]) : applied[p][k].i = 1
        /\ Len(Envelopes(p)) <= 1
        /\ FrameDone(p) /\ WellFormed(frame[p].arr) =>
              /\ Len(Envelopes(p)) = 1
              /\ retErr[p] # "Invalid command"

\* The frame is rejected: its first element is no verb, or its length is
\* not the one of its verb.
Rejected(a) == ~WellFormed(a)

\* C17: every envelope Server.Loop takes carries a Get with the one argument
\* of a GET frame of two elements or a Set with the two arguments of a SET
\* frame of three, and the Store and the registry change for no rejected
\* frame: the Store changes only with an envelope of a frame that is not
\* rejected.
C17_RejectedFrameHasNoEffect ==
    [][/\ \A p \in Peers : Applied(p) =>
             LET a == frame[p].arr
                 c == Pending(p)
             IN  /\ ~Rejected(a)
                 /\ c.type = "GET" => a[1] = CommandGET /\ c = GetCommand(a[2])
                 /\ c.type = "SET" => a[1] = CommandSET /\ c = SetCommand(a[2], a[3])
                 /\ peers' = peers
       /\ kv' # kv => \E p \in Peers : Applied(p) /\ ~Rejected(frame[p].arr)]_vars

\* Server.Loop processes an event of its select, other than quitCh, in this
\* step: an add-peer, a remove-peer or an envelope.
EventStep ==
    \/ \E p \in Peers : Applied(p)
    \/ last' # last /\ last'.op \in {"add", "del"}

\* C21: Server.Loop is running until it takes quitCh and stopped from then
\* on: the only change of its state is from running to stopped, in the step
\* that takes quitCh; an add-peer, a remove-peer and an envelope, also one
\* whose handling returns an error, are processed while it runs and leave it
\* running; once it is stopped, Server.peers and Server.kv change no more.
C21_DispatcherStateMachine ==
    [][/\ running' # running =>
             running = "running" /\ running' = "stopped" /\ last'.op = "quit"
       /\ EventStep => running = "running" /\ running' = "running"
       /\ running = "stopped" =>
             running' = "stopped" /\ peers' = peers /\ kv' = kv]_vars

\* Server.Loop has stopped with a peer registered and a value stored, and a
\* worker is blocked offering it an event.
C21_Witness ==
    /\ running = "stopped"
    /\ last.op = "quit"
    /\ peers # {}
    /\ kv # NewKV
    /\ \E p \in Peers : pc[p] \in {"add", "send"}

\* C22: the step in which Server.Loop applies Set{k, v} makes the Store map
\* k to v, leaves the entry of every other key as it was and adds none,
\* leaves Server.peers unchanged and writes to no connection; no step takes
\* a key out of the Store.
C22_SetFireAndForget ==
    [][/\ \A p \in Peers :
             Applied(p) /\ Pending(p).type = "SET" =>
                 LET c == Pending(p)
                 IN  /\ KVGet(kv', c.key) = [val |-> c.val, ok |-> TRUE]
                     /\ DOMAIN kv' = (DOMAIN kv) \cup {c.key}
                     /\ \A k \in (DOMAIN kv) \ {c.key} : kv'[k] = kv[k]
                     /\ peers' = peers
                     /\ outbuf' = outbuf
                     /\ sending' = NoSend
       /\ (DOMAIN kv) \subseteq (DOMAIN kv')]_vars

\* Server.Loop has just applied a Set of a second key with both connections
\* registered: the Store holds the two keys and no connection was written to.
C22_Witness ==
    /\ last.op = "msg"
    /\ last.cmd.type = "SET"
    /\ last.sent = None
    /\ Cardinality(DOMAIN kv) = 2
    /\ peers = Peers
    /\ \A p \in Peers : outbuf[p] = << >>

\* C23: after a write to a connection's socket has failed (Send returns an
\* error), that connection is torn down and its peer deregistered: once its
\* worker has returned and the server has nothing more to do, the peer is
\* not in Server.peers.
C23_WriteErrorTearsDown ==
    /\ last.op = "msg"
    /\ last.err = "peer send error"
    /\ pc[last.peer] = "returned"
    /\ NothingOffered
    => last.peer \notin peers

\* The server's side of connection p is open: acceptLoop has accepted it,
\* and the server holds it until the process ends, for no code of the
\* server calls Close on a connection.
ServerSideOpen(p) == alive /\ pc[p] # "idle"

\* C24: the end of readLoop closes the socket: no connection whose worker
\* has returned, on io.EOF or with an error, is still open on the server's
\* side.
C24_SocketClosedOnLoopEnd ==
    \A p \in Peers : pc[p] = "returned" => ~ServerSideOpen(p)

\* The most envelopes Server.Loop takes of one connection.
MaxEnvelopes == 3 * MaxFrames

\* C25: while no shutdown signal is sent and socket writes complete, every
\* event a worker offers is received by Server.Loop in the end: a worker
\* blocked in s.addPeerCh <- gets its peer registered, and a worker blocked
\* in p.msgCh <- gets that envelope taken.
C25_OfferedEventsProcessed ==
    \A p \in Peers :
        /\ pc[p] = "add" ~> p \in peers
        /\ \A n \in 0..MaxEnvelopes :
              (pc[p] = "send" /\ Len(applied[p]) = n) ~> Len(applied[p]) > n

====
